---- MODULE Spec2Model ----
(***************************************************************************)
(* Model of scripts/zap_gradle.py: the deep-clean orchestrator `main` and  *)
(* the primitives it sequences (run_cmd, confirm_under_home, safe_rm,      *)
(* glob_and_remove, find_project_dirs_to_remove), over an explicit model   *)
(* of the filesystem (directories, files, symbolic links, entries that     *)
(* cannot be removed, directories that cannot be searched).                *)
(*                                                                         *)
(* A path is a sequence of names; <<>> is the filesystem root "/".         *)
(* All paths of the model are absolute and normalised.                     *)
(***************************************************************************)
EXTENDS Integers, Sequences, FiniteSets, TLC

VARIABLES
    fs,        \* the filesystem: existing path -> [kind, target]
    stuck,     \* entries whose unlink/rmdir fails (EPERM/EACCES on removal)
    noaccess,  \* directories that can be neither listed nor searched (mode 000)
    cfg,       \* the run configuration built by main from argv and the environment
    env,       \* what lies outside the program: PATH, whether a command can start, listing order
    pc,        \* position of main
    run,       \* number of the current invocation of main
    fs0,       \* the filesystem as it was when the current invocation started
    out,       \* lines printed by the current invocation, in order
    rmlog,     \* calls of safe_rm made by the current invocation, in order
    spawned,   \* external commands started by the current invocation, in order
    proc,      \* the external command main is blocked on, if any
    arg,       \* input of a primitive exercised on its own
    ret        \* its result

vars == <<fs, stuck, noaccess, cfg, env, pc, run, fs0, out, rmlog, spawned, proc, arg, ret>>

(***************************************************************************)
(* Bounds of the model.                                                    *)
(***************************************************************************)
\* Symbolic links followed while resolving one path before the walk is
\* declared a loop (the kernel's ELOOP, realpath's `seen` table).
MaxLinkHops == 6
\* Invocations of main in succession on the same tree.
MaxRuns == 2

(***************************************************************************)
(* Paths and their string form.                                            *)
(***************************************************************************)
Root == <<>>

Parent(p) == SubSeq(p, 1, Len(p) - 1)

Name(p) == p[Len(p)]

\* q is p or lies below p
IsPrefix(p, q) == Len(p) <= Len(q) /\ SubSeq(q, 1, Len(p)) = p

\* os.sep
Sep == "/"

\* str(PosixPath): "/" for the root, "/a/b" otherwise
RECURSIVE JoinNames(_)
JoinNames(p) == IF p = <<>> THEN "" ELSE Sep \o Head(p) \o JoinNames(Tail(p))

Str(p) == IF p = <<>> THEN Sep ELSE JoinNames(p)

\* str.startswith
StartsWith(s, pre) == Len(s) >= Len(pre) /\ SubSeq(s, 1, Len(pre)) = pre

(***************************************************************************)
(* Filesystem entries.                                                     *)
(***************************************************************************)
Dir == [kind |-> "dir", target |-> <<>>]

File == [kind |-> "file", target |-> <<>>]

Link(t) == [kind |-> "link", target |-> t]

Children(f, d) == {q \in DOMAIN f : Len(q) = Len(d) + 1 /\ IsPrefix(d, q)}

Subtree(f, d) == {q \in DOMAIN f : IsPrefix(d, q)}

\* some directory that has to be searched to reach p may not be searched
Blocked(na, p) == \E k \in 0..(Len(p) - 1) : SubSeq(p, 1, k) \in na

(***************************************************************************)
(* The kernel's path walk (stat when follow, lstat otherwise): the entry   *)
(* reached, or the errno.                                                  *)
(***************************************************************************)
RECURSIVE Walk(_, _, _, _, _, _)
Walk(f, na, done, rest, follow, fuel) ==
    IF rest = <<>> THEN [st |-> "ok", real |-> done]
    ELSE IF done \in na THEN [st |-> "EACCES", real |-> done]
    ELSE LET nxt == Append(done, Head(rest)) IN
         IF nxt \notin DOMAIN f THEN [st |-> "ENOENT", real |-> nxt]
         ELSE IF f[nxt].kind = "link" /\ (follow \/ Tail(rest) # <<>>)
              THEN IF fuel = 0 THEN [st |-> "ELOOP", real |-> nxt]
                   ELSE Walk(f, na, <<>>, f[nxt].target \o Tail(rest), follow, fuel - 1)
         ELSE IF f[nxt].kind = "file" /\ Tail(rest) # <<>>
              THEN [st |-> "ENOTDIR", real |-> nxt]
         ELSE Walk(f, na, nxt, Tail(rest), follow, fuel)

Stat(f, na, p) == Walk(f, na, <<>>, p, TRUE, MaxLinkHops)

Lstat(f, na, p) == Walk(f, na, <<>>, p, FALSE, MaxLinkHops)

\* pathlib._ignore_error: ENOENT, ENOTDIR, EBADF, ELOOP answer False; any
\* other OSError (EACCES) is raised to the caller
Raises(s) == s.st = "EACCES"

\* Path.exists(), Path.is_dir(), Path.is_symlink() where they do not raise
Exists(f, na, p) == Stat(f, na, p).st = "ok"

IsDir(f, na, p) ==
    LET s == Stat(f, na, p) IN s.st = "ok" /\ f[s.real].kind = "dir"

IsSymlink(f, na, p) ==
    LET s == Lstat(f, na, p) IN s.st = "ok" /\ s.real # <<>> /\ f[s.real].kind = "link"

\* os.path.lexists
Lexists(f, na, p) == Lstat(f, na, p).st = "ok"

(***************************************************************************)
(* Path.resolve() (strict=False): os.path.realpath, which carries on       *)
(* lexically where lstat fails, then one stat that turns a symlink loop    *)
(* into RuntimeError.                                                      *)
(***************************************************************************)
RECURSIVE RealJoin(_, _, _, _, _)
RealJoin(f, na, done, rest, fuel) ==
    IF rest = <<>> THEN [ok |-> TRUE, path |-> done]
    ELSE LET nxt == Append(done, Head(rest)) IN
         IF nxt \in DOMAIN f /\ ~Blocked(na, nxt) /\ f[nxt].kind = "link"
         THEN IF fuel = 0 THEN [ok |-> FALSE, path |-> nxt]
              ELSE RealJoin(f, na, <<>>, f[nxt].target \o Tail(rest), fuel - 1)
         ELSE RealJoin(f, na, nxt, Tail(rest), fuel)

Resolve(f, na, p) == RealJoin(f, na, <<>>, p, MaxLinkHops)

(***************************************************************************)
(* confirm_under_home                                                      *)
(***************************************************************************)
confirm_under_home(f, na, path, home) ==
    LET rp == Resolve(f, na, path)
        rh == Resolve(f, na, home)
    IN  IF rp.ok /\ rh.ok
        THEN StartsWith(Str(rp.path), Str(rh.path) \o Sep)
        ELSE FALSE

(***************************************************************************)
(* Directory listings.  os.scandir gives the entries in an order the       *)
(* program does not control: ascending or descending by NameOrder, as the  *)
(* environment (env.lsrev) has it.                                         *)
(***************************************************************************)
NameOrder ==
    << ".cache", ".git", ".gradle", ".konan", "8.5", "app", "build",
       "build-cache-1", "cache", "caches", "daemon", "data", "dists", "ext",
       "files-2.1", "gh", "gl", "gradle", "gradlew", "home", "jars-9",
       "kotlin", "lib", "modules-2", "notifications", "out", "out.jar",
       "proj", "registry.bin", "src", "vcs-1", "wrapper",
       "h", "hx", "l", "m", "node_modules", "o", "t", "w", "x" >>

RECURSIVE Reverse(_)
Reverse(s) == IF s = <<>> THEN <<>> ELSE Append(Reverse(Tail(s)), Head(s))

Listing(S, rev) ==
    LET Member(n) == n \in S
    IN  SelectSeq(IF rev THEN Reverse(NameOrder) ELSE NameOrder, Member)

\* os.scandir(d): the names in d; no entry when d cannot be listed (the
\* callers below all swallow that error)
ScanDir(f, na, d, rev) ==
    LET s == Stat(f, na, d)
    IN  IF s.st = "ok" /\ f[s.real].kind = "dir" /\ s.real \notin na
        THEN Listing({Name(q) : q \in Children(f, s.real)}, rev)
        ELSE <<>>

\* DirEntry.is_dir() in os.walk: follows a symlink, and an OSError is "no"
EntryIsDir(f, na, p) == IsDir(f, na, p)

(***************************************************************************)
(* find_project_dirs_to_remove: os.walk(root, topdown=True) with pruning   *)
(***************************************************************************)
\* the prune set without its first name
Prune_without_git == {".idea", ".vscode", ".venv", "venv", "node_modules", "build", ".gradle"}

Prune == {".git", ".idea", ".vscode", ".venv", "venv", "node_modules", "build", ".gradle"}

Artifact == {"build", ".gradle"}

RECURSIVE WalkDirs(_, _, _, _, _)
RECURSIVE WalkTop(_, _, _, _)
\* the generator's visits below the directories `todo` of `top`, in order
WalkDirs(f, na, top, todo, rev) ==
    IF todo = <<>> THEN <<>>
    ELSE LET new_path == Append(top, Head(todo))
             below == IF IsSymlink(f, na, new_path) THEN <<>>
                      ELSE WalkTop(f, na, new_path, rev)
         IN  below \o WalkDirs(f, na, top, Tail(todo), rev)

\* one directory of the walk: its targets, then the walk of what is kept
WalkTop(f, na, top, rev) ==
    LET IsD(n) == EntryIsDir(f, na, Append(top, n))
        dirs == SelectSeq(ScanDir(f, na, top, rev), IsD)
        IsArtifact(n) == n \in Artifact
        Kept(n) == n \notin Prune
        found == SelectSeq(dirs, IsArtifact)
        targets == [i \in 1..Len(found) |-> Append(top, found[i])]
    IN  targets \o WalkDirs(f, na, top, SelectSeq(dirs, Kept), rev)

find_project_dirs_to_remove(f, na, root, rev) == WalkTop(f, na, root, rev)

(***************************************************************************)
(* Removal.                                                                *)
(***************************************************************************)
\* shutil.rmtree(root, ignore_errors=True) on the real directory `root`:
\* every entry of the subtree goes, except an entry that cannot be removed,
\* what lies in a directory that cannot be listed, and the directories
\* above such entries (rmdir of a non-empty directory fails); no error
\* leaves the call.  Symbolic links in the subtree are unlinked, not followed.
rmtree(f, root) ==
    LET sub == Subtree(f, root)
        Held(q) == \/ q \in stuck
                   \/ \E k \in Len(root)..(Len(q) - 1) : SubSeq(q, 1, k) \in noaccess
        keep == {q \in sub : \E h \in sub : IsPrefix(q, h) /\ Held(h)}
    IN  [q \in (DOMAIN f \ sub) \cup keep |-> f[q]]

\* lines 52-58 without `and not path.is_symlink()`, rmtree working on what
\* the link names
Remove_following_links(f, path) ==
    IF IsDir(f, noaccess, path)
    THEN [fs |-> rmtree(f, Stat(f, noaccess, path).real), raised |-> FALSE]
    ELSE LET lp == Lstat(f, noaccess, path).real
         IN  IF lp \in stuck
             THEN [fs |-> f, raised |-> TRUE]
             ELSE [fs |-> [q \in DOMAIN f \ {lp} |-> f[q]], raised |-> FALSE]

\* lines 52-58 of safe_rm: the filesystem after the attempt, and whether an
\* exception reached the handler of line 61
Remove(f, path) ==
    IF IsDir(f, noaccess, path) /\ ~IsSymlink(f, noaccess, path)
    THEN [fs |-> rmtree(f, Stat(f, noaccess, path).real), raised |-> FALSE]
    ELSE LET lp == Lstat(f, noaccess, path).real
         IN  IF f[lp].kind = "dir"                 \* IsADirectoryError
             THEN [fs |-> rmtree(f, lp), raised |-> FALSE]
             ELSE IF lp \in stuck                  \* PermissionError from unlink
             THEN [fs |-> f, raised |-> TRUE]
             ELSE [fs |-> [q \in DOMAIN f \ {lp} |-> f[q]], raised |-> FALSE]

(***************************************************************************)
(* The state a sequence of calls threads through: the filesystem, what was *)
(* printed, the safe_rm calls made, and whether an exception is            *)
(* propagating (after which nothing more of main executes).                *)
(***************************************************************************)
Line(msg, a, b) == [msg |-> msg, a |-> a, b |-> b]

Say(m, msg, a, b) == [m EXCEPT !.out = Append(@, Line(msg, a, b))]

Raise(m) == [m EXCEPT !.exc = TRUE]

\* record of one safe_rm call: who called, with what path, whether the path
\* passes the safety guard at that moment, the outcome, the entries removed
Called(m, step, path, outcome, f2) ==
    Append(m.rmlog,
           [step |-> step, path |-> path,
            under |-> confirm_under_home(m.fs, noaccess, path, cfg.home),
            outcome |-> outcome,
            gone |-> DOMAIN m.fs \ DOMAIN f2])

(***************************************************************************)
(* safe_rm                                                                 *)
(***************************************************************************)
\* lines 51-62: the try block
TryRemove(m, path, verbose, step) ==
    LET r == Remove(m.fs, path) IN
    IF r.raised
    THEN [Say(m, "WARN: failed to remove", path, <<>>)
            EXCEPT !.rmlog = Called(m, step, path, "warn", m.fs)]
    ELSE [fs |-> r.fs,
          out |-> IF verbose THEN Append(m.out, Line("removed:", path, <<>>))
                  ELSE m.out,
          rmlog |-> Called(m, step, path, "removed", r.fs),
          exc |-> FALSE]

\* safe_rm without lines 48-50
safe_rm_ignoring_dry_run(m, path, dry_run, verbose, step) ==
    IF m.exc THEN m
    ELSE LET s == Stat(m.fs, noaccess, path) IN
         IF Raises(s)
         THEN [Raise(m) EXCEPT !.rmlog = Called(m, step, path, "raised", m.fs)]
         ELSE IF s.st # "ok"
         THEN [m EXCEPT !.rmlog = Called(m, step, path, "missing", m.fs)]
         ELSE TryRemove(m, path, verbose, step)

safe_rm(m, path, dry_run, verbose, step) ==
    IF m.exc THEN m
    ELSE LET s == Stat(m.fs, noaccess, path) IN
         IF Raises(s)                       \* path.exists() is outside the try
         THEN [Raise(m) EXCEPT !.rmlog = Called(m, step, path, "raised", m.fs)]
         ELSE IF s.st # "ok"
         THEN [m EXCEPT !.rmlog = Called(m, step, path, "missing", m.fs)]
         ELSE IF dry_run
         THEN [Say(m, "DRY-RUN: rm -rf", path, <<>>)
                 EXCEPT !.rmlog = Called(m, step, path, "dry-run", m.fs)]
         ELSE TryRemove(m, path, verbose, step)

RECURSIVE RemoveAll(_, _, _, _, _)
\* for p in paths: safe_rm(p, dry_run, verbose)
RemoveAll(m, paths, dry_run, verbose, step) ==
    IF paths = <<>> THEN m
    ELSE RemoveAll(safe_rm(m, Head(paths), dry_run, verbose, step),
                   Tail(paths), dry_run, verbose, step)

(***************************************************************************)
(* glob_and_remove.  A pattern is the directory part below base, the       *)
(* literal start of the last component, and whether a `*` follows it.      *)
(***************************************************************************)
Pat(dir, pre, magic) == [dir |-> dir, pre |-> pre, magic |-> magic]

\* glob.glob(str(base / pat)): a list, complete before the first removal
Glob(f, na, base, pat, rev) ==
    LET d == base \o pat.dir IN
    IF pat.magic
    THEN LET Match(n) == StartsWith(n, pat.pre) /\ ~StartsWith(n, ".")
             names == SelectSeq(ScanDir(f, na, d, rev), Match)
         IN  [i \in 1..Len(names) |-> Append(d, names[i])]
    ELSE IF Lexists(f, na, Append(d, pat.pre)) THEN <<Append(d, pat.pre)>> ELSE <<>>

RECURSIVE glob_and_remove(_, _, _, _, _, _)
glob_and_remove(m, base, patterns, dry_run, verbose, step) ==
    IF patterns = <<>> \/ m.exc THEN m
    ELSE glob_and_remove(
             RemoveAll(m, Glob(m.fs, noaccess, base, Head(patterns), env.lsrev),
                       dry_run, verbose, step),
             base, Tail(patterns), dry_run, verbose, step)

(***************************************************************************)
(* run_cmd up to the point where subprocess.run blocks: what is printed,   *)
(* and whether a child process was started.  A command that cannot be      *)
(* started (missing or non-executable file) raises inside the try, which   *)
(* prints the WARN line and returns 1.                                     *)
(***************************************************************************)
\* subprocess.run(cmd): a program named with a slash is executed as the file
\* it names; a bare word is searched on PATH
CanStart(cmd) ==
    /\ env.startable
    /\ StartsWith(cmd[1], Sep) \/ cmd[1] \in env.on_path

run_cmd(m, cmd, cwd, dry_run, verbose) ==
    IF dry_run
    THEN [m |-> Say(m, "DRY-RUN: would run:", cmd, cwd), started |-> FALSE]
    ELSE LET m1 == IF verbose THEN Say(m, "RUN:", cmd, cwd) ELSE m IN
         IF CanStart(cmd)
         THEN [m |-> m1, started |-> TRUE]
         ELSE [m |-> Say(m1, "WARN: command failed:", cmd, <<>>), started |-> FALSE]

\* what a started child may do: exit 0, exit non-zero, or never exit
\* (subprocess.run is given no timeout)
Fates == {"exit0", "exit1", "hang"}

Idle == [cmd |-> <<>>, fate |-> "none", state |-> "none"]

(***************************************************************************)
(* The steps of main as functions of the threaded state.                   *)
(***************************************************************************)
SafePatterns == << Pat(<<"caches">>, "build-cache-", TRUE), Pat(<<>>, "vcs-", TRUE) >>

\* the aggressive list without its last pattern
AggressivePatterns_without_dists ==
    << Pat(<<"caches">>, "modules-2", FALSE),
       Pat(<<"caches">>, "jars-", TRUE),
       Pat(<<"caches">>, "transforms-", TRUE) >>

AggressivePatterns ==
    << Pat(<<"caches">>, "modules-2", FALSE),
       Pat(<<"caches">>, "jars-", TRUE),
       Pat(<<"caches">>, "transforms-", TRUE),
       Pat(<<"wrapper">>, "dists", FALSE) >>

\* line 168-169
ProjectPurge(m) ==
    RemoveAll(Say(m, ">> Removing project-local", <<>>, <<>>),
              find_project_dirs_to_remove(m.fs, noaccess, cfg.root, env.lsrev),
              cfg.dry_run, cfg.verbose, "step3")

RECURSIVE KotlinShards(_, _, _)
\* lines 185-187, over the listing `names` of caches_dir taken when the loop starts
KotlinShards(m, caches_dir, names) ==
    IF names = <<>> \/ m.exc THEN m
    ELSE LET subdir == Append(caches_dir, Head(names))
             s == Stat(m.fs, noaccess, subdir)
             m1 == IF Raises(s) THEN Raise(m)              \* subdir.is_dir()
                   ELSE IF s.st = "ok" /\ m.fs[s.real].kind = "dir"
                   THEN safe_rm(m, Append(subdir, "kotlin"), cfg.dry_run, cfg.verbose, "step4")
                   ELSE m
         IN  KotlinShards(m1, caches_dir, Tail(names))

\* lines 183-187
CachesPrune(m) ==
    LET caches_dir == Append(cfg.gradle_user_home, "caches")
        s == Stat(m.fs, noaccess, caches_dir)
    IN  IF m.exc THEN m
        ELSE IF Raises(s) THEN Raise(m)                    \* caches_dir.exists()
        ELSE IF s.st = "ok"
        THEN KotlinShards(m, caches_dir,
                          IF m.fs[s.real].kind = "dir"     \* Path.glob("*")
                          THEN ScanDir(m.fs, noaccess, caches_dir, env.lsrev)
                          ELSE <<>>)
        ELSE m

\* lines 190-192
XdgPrune(m) ==
    LET xdg_gradle == Append(cfg.xdg_cache_home, "gradle")
        s == Stat(m.fs, noaccess, xdg_gradle)
    IN  IF m.exc THEN m
        ELSE IF Raises(s) THEN Raise(m)                    \* xdg_gradle.exists()
        ELSE IF s.st = "ok"
        THEN safe_rm(m, xdg_gradle, cfg.dry_run, cfg.verbose, "step4")
        ELSE m

\* lines 175-192: the else branch of the step-4 guard, up to step 5
SafePrune(m) ==
    LET m1 == Say(m, ">> Pruning user-level Gradle caches (safe subset)", <<>>, <<>>)
        m2 == RemoveAll(m1, << Append(cfg.gradle_user_home, "daemon"),
                               Append(cfg.gradle_user_home, "notifications") >>,
                        cfg.dry_run, cfg.verbose, "step4")
        m3 == glob_and_remove(m2, cfg.gradle_user_home, SafePatterns,
                              cfg.dry_run, cfg.verbose, "step4")
    IN  XdgPrune(CachesPrune(m3))

\* step 5 without the test of the flag
AggressivePurge_always(m) ==
    glob_and_remove(Say(m, ">> AGGRESSIVE:", <<>>, <<>>),
                    cfg.gradle_user_home, AggressivePatterns,
                    cfg.dry_run, cfg.verbose, "step5")

\* lines 195-202
AggressivePurge(m) ==
    IF cfg.aggressive
    THEN glob_and_remove(Say(m, ">> AGGRESSIVE:", <<>>, <<>>),
                         cfg.gradle_user_home, AggressivePatterns,
                         cfg.dry_run, cfg.verbose, "step5")
    ELSE m

\* step 6 placed inside the else branch of the step-4 guard
KonanPurge_inside_user_prune(m) ==
    LET konan == Append(cfg.home, ".konan") IN
    IF ~cfg.include_konan
          \/ \E i \in DOMAIN m.out : m.out[i].msg = "SAFETY: GRADLE_USER_HOME is not under HOME"
    THEN m
    ELSE IF confirm_under_home(m.fs, noaccess, konan, cfg.home)
    THEN safe_rm(Say(m, ">> Removing ~/.konan (Kotlin/Native)", <<>>, <<>>),
                 konan, cfg.dry_run, cfg.verbose, "step6")
    ELSE Say(m, "SAFETY: refusing to remove ~/.konan outside HOME", <<>>, <<>>)

\* lines 205-211
KonanPurge(m) ==
    LET konan == Append(cfg.home, ".konan") IN
    IF ~cfg.include_konan THEN m
    ELSE IF confirm_under_home(m.fs, noaccess, konan, cfg.home)
    THEN safe_rm(Say(m, ">> Removing ~/.konan (Kotlin/Native)", <<>>, <<>>),
                 konan, cfg.dry_run, cfg.verbose, "step6")
    ELSE Say(m, "SAFETY: refusing to remove ~/.konan outside HOME", <<>>, <<>>)

(***************************************************************************)
(* main, one action per step.                                              *)
(***************************************************************************)
Now == [fs |-> fs, out |-> out, rmlog |-> rmlog, exc |-> FALSE]

\* the step's effects become the state; an exception that left the step
\* ends main with a traceback (exit status 1)
Commit(m, next) ==
    /\ fs' = m.fs
    /\ out' = m.out
    /\ rmlog' = m.rmlog
    /\ pc' = IF m.exc THEN "crashed" ELSE next

\* lines 136-152
Begin ==
    /\ pc = "start"
    /\ Commit(Say(Now, "== zap_gradle ==", cfg.root, cfg.gradle_user_home), "step1")
    /\ UNCHANGED <<stuck, noaccess, cfg, env, run, fs0, spawned, proc, arg, ret>>

\* run_cmd(cmd, cwd=root, ...) called at `here`: either it returns at once
\* (dry run, or the command could not be started) or main blocks on the child
Launch(cmd, waiting, next) ==
    LET r == run_cmd(Now, cmd, cfg.root, cfg.dry_run, cfg.verbose) IN
    /\ out' = r.m.out
    /\ IF r.started
       THEN /\ \E fate \in Fates : proc' = [cmd |-> cmd, fate |-> fate, state |-> "running"]
            /\ spawned' = Append(spawned, cmd)
            /\ pc' = waiting
       ELSE /\ proc' = Idle
            /\ spawned' = spawned
            /\ pc' = next

\* lines 155-160
Step1 ==
    /\ pc = "step1"
    /\ LET s == Stat(fs, noaccess, cfg.gradlew) IN
       IF Raises(s)                                        \* gradlew.exists()
       THEN pc' = "crashed" /\ UNCHANGED <<out, proc, spawned>>
       ELSE IF s.st = "ok"
       THEN Launch(<<cfg.gradlew_str, "--stop">>, "wait1", "step2")
       ELSE IF "gradle" \in env.on_path                     \* which("gradle")
       THEN Launch(<<"gradle", "--stop">>, "wait1", "step2")
       ELSE /\ out' = Append(out, Line("WARN: gradle/gradlew not found", <<>>, <<>>))
            /\ pc' = "step2"
            /\ UNCHANGED <<proc, spawned>>
    /\ UNCHANGED <<fs, stuck, noaccess, cfg, env, run, fs0, rmlog, arg, ret>>

\* subprocess.run returns: the child exited; run_cmd returns its status,
\* which main does not look at
ProcExit ==
    /\ pc \in {"wait1", "wait2"}
    /\ proc.state = "running"
    /\ proc.fate # "hang"
    /\ proc' = [proc EXCEPT !.state = "exited"]
    /\ pc' = IF pc = "wait1" THEN "step2" ELSE "step3"
    /\ UNCHANGED <<fs, stuck, noaccess, cfg, env, run, fs0, out, rmlog, spawned, arg, ret>>

\* lines 163-164
Step2 ==
    /\ pc = "step2"
    /\ LET s == Stat(fs, noaccess, cfg.gradlew) IN
       IF Raises(s)
       THEN pc' = "crashed" /\ UNCHANGED <<out, proc, spawned>>
       ELSE IF s.st = "ok"
       THEN Launch(<<cfg.gradlew_str, "-q", "cleanBuildCache">>, "wait2", "step3")
       ELSE /\ pc' = "step3"
            /\ proc' = Idle
            /\ UNCHANGED <<out, spawned>>
    /\ UNCHANGED <<fs, stuck, noaccess, cfg, env, run, fs0, rmlog, arg, ret>>

\* lines 167-169
Step3 ==
    /\ pc = "step3"
    /\ Commit(ProjectPurge(Now), "step4")
    /\ proc' = Idle
    /\ UNCHANGED <<stuck, noaccess, cfg, env, run, fs0, spawned, arg, ret>>

\* Step4 with the guard's verdict only reported: the warning is printed and
\* the prune goes on
Step4_warn_and_continue ==
    /\ pc = "step4"
    /\ IF ~confirm_under_home(fs, noaccess, cfg.gradle_user_home, cfg.home)
       THEN Commit(SafePrune(Say(Now, "SAFETY: GRADLE_USER_HOME is not under HOME",
                                 cfg.gradle_user_home, cfg.home)), "step6")
       ELSE Commit(SafePrune(Now), "step5")
    /\ UNCHANGED <<stuck, noaccess, cfg, env, run, fs0, spawned, proc, arg, ret>>

\* lines 172-192
Step4 ==
    /\ pc = "step4"
    /\ IF ~confirm_under_home(fs, noaccess, cfg.gradle_user_home, cfg.home)
       THEN Commit(Say(Now, "SAFETY: GRADLE_USER_HOME is not under HOME",
                       cfg.gradle_user_home, cfg.home), "step6")
       ELSE Commit(SafePrune(Now), "step5")
    /\ UNCHANGED <<stuck, noaccess, cfg, env, run, fs0, spawned, proc, arg, ret>>

\* lines 195-202, reached only inside the else branch of line 174
Step5 ==
    /\ pc = "step5"
    /\ Commit(AggressivePurge(Now), "step6")
    /\ UNCHANGED <<stuck, noaccess, cfg, env, run, fs0, spawned, proc, arg, ret>>

\* lines 205-211
Step6 ==
    /\ pc = "step6"
    /\ Commit(KonanPurge(Now), "step7")
    /\ UNCHANGED <<stuck, noaccess, cfg, env, run, fs0, spawned, proc, arg, ret>>

\* lines 213-214
Step7 ==
    /\ pc = "step7"
    /\ Commit(Say(Now, ">> zap complete", <<>>, <<>>), "done")
    /\ UNCHANGED <<stuck, noaccess, cfg, env, run, fs0, spawned, proc, arg, ret>>

\* the same command line again, on the tree the previous invocation left
Rerun ==
    /\ pc = "done"
    /\ run < MaxRuns
    /\ run' = run + 1
    /\ pc' = "start"
    /\ fs0' = fs
    /\ out' = <<>>
    /\ rmlog' = <<>>
    /\ spawned' = <<>>
    /\ proc' = Idle
    /\ UNCHANGED <<fs, stuck, noaccess, cfg, env, arg, ret>>

(***************************************************************************)
(* The trees and configurations explored.                                  *)
(***************************************************************************)
MkFS(entries) == [p \in {e[1] : e \in entries} |-> (CHOOSE e \in entries : e[1] = p)[2]]

Home == <<"home">>

\* A home directory with a populated ~/.gradle, ~/.cache and ~/.konan, a
\* project below it, and a second volume /out outside the home directory;
\* three symbolic links lead from below home to /out.
Tree ==
    MkFS({
      <<Root, Dir>>,
      <<Home, Dir>>,
      <<<<"home", ".gradle">>, Dir>>,
      <<<<"home", ".gradle", "daemon">>, Dir>>,
      <<<<"home", ".gradle", "daemon", "registry.bin">>, File>>,
      <<<<"home", ".gradle", "notifications">>, File>>,
      <<<<"home", ".gradle", "caches">>, Dir>>,
      <<<<"home", ".gradle", "caches", "build-cache-1">>, Dir>>,
      <<<<"home", ".gradle", "caches", "modules-2">>, Dir>>,
      <<<<"home", ".gradle", "caches", "modules-2", "kotlin">>, Dir>>,
      <<<<"home", ".gradle", "caches", "modules-2", "files-2.1">>, File>>,
      <<<<"home", ".gradle", "caches", "jars-9">>, Dir>>,
      <<<<"home", ".gradle", "caches", "jars-9", "kotlin">>, File>>,
      <<<<"home", ".gradle", "caches", "8.5">>, Dir>>,
      <<<<"home", ".gradle", "caches", "8.5", "kotlin">>, Dir>>,
      <<<<"home", ".gradle", "caches", "ext">>, Link(<<"out", "data">>)>>,
      <<<<"home", ".gradle", "vcs-1">>, Dir>>,
      <<<<"home", ".gradle", "wrapper">>, Dir>>,
      <<<<"home", ".gradle", "wrapper", "dists">>, Dir>>,
      <<<<"home", ".cache">>, Dir>>,
      <<<<"home", ".cache", "gradle">>, Dir>>,
      <<<<"home", ".konan">>, Dir>>,
      <<<<"home", ".konan", "gl">>, Link(<<"out", "gh">>)>>,
      <<<<"home", "proj">>, Dir>>,
      <<<<"home", "proj", "gradlew">>, File>>,
      <<<<"home", "proj", "build">>, Dir>>,
      <<<<"home", "proj", "build", "out.jar">>, File>>,
      <<<<"home", "proj", ".gradle">>, Dir>>,
      <<<<"home", "proj", "app">>, Dir>>,
      <<<<"home", "proj", "app", "build">>, Dir>>,
      <<<<"home", "proj", ".git">>, Dir>>,
      <<<<"home", "proj", ".git", "build">>, Dir>>,
      <<<<"home", "proj", "lib">>, Link(<<"out", "gh">>)>>,
      <<<<"out">>, Dir>>,
      <<<<"out", "gh">>, Dir>>,
      <<<<"out", "gh", "daemon">>, Dir>>,
      <<<<"out", "gh", "build">>, Dir>>,
      <<<<"out", "gh", "caches">>, Dir>>,
      <<<<"out", "gh", "caches", "modules-2">>, Dir>>,
      <<<<"out", "cache">>, Dir>>,
      <<<<"out", "cache", "gradle">>, Dir>>,
      <<<<"out", "data">>, Dir>>,
      <<<<"out", "data", "kotlin">>, Dir>>
    })

\* Path.cwd()
Cwds == { <<"home", "proj">>, Home, <<"out">> }

\* --gradle-user-home / GRADLE_USER_HOME
GradleUserHomes == { <<"home", ".gradle">>, <<"out", "gh">>, <<"home", ".konan", "gl">>, Home }

\* --xdg-cache-home / XDG_CACHE_HOME
XdgCacheHomes == { <<"home", ".cache">>, <<"out", "cache">> }

\* the build-tool programs a PATH search finds
OnPaths == { {}, {"gradle"}, {"gradle", "gradlew"} }

\* permissions: [stuck, noaccess].  An entry is stuck when its directory is
\* read-only (mode 555); a directory is noaccess when its mode is 000.
Perms ==
    { [stuck |-> {}, noaccess |-> {}],
      [stuck |-> {<<"home", ".gradle", "caches", "jars-9", "kotlin">>}, noaccess |-> {}],
      [stuck |-> {<<"home", "proj", "build", "out.jar">>}, noaccess |-> {}],
      [stuck |-> {}, noaccess |-> {<<"home", ".gradle">>}],
      [stuck |-> {}, noaccess |-> {<<"home", ".gradle", "caches", "8.5">>}] }

\* --gradlew: the default "./gradlew", or the wrapper's absolute path.
\* Path("./gradlew") drops the leading "./": str(gradlew) is then the bare
\* word "gradlew", while gradlew.exists() still looks in the working directory.
GradlewArgs == {"./gradlew", "absolute"}

\* lines 136-144: the configuration main builds
Config(root, gw, guh, xdg, dry, agg, konan, verbose) ==
    [ root |-> root,
      home |-> Home,
      gradlew |-> Append(root, "gradlew"),
      gradlew_str |-> IF gw = "./gradlew" THEN "gradlew" ELSE Str(Append(root, "gradlew")),
      gradle_user_home |-> guh,
      xdg_cache_home |-> xdg,
      dry_run |-> dry,
      aggressive |-> agg,
      include_konan |-> konan,
      verbose |-> verbose ]

Init ==
    /\ fs = Tree
    /\ fs0 = Tree
    /\ \E p \in Perms : stuck = p.stuck /\ noaccess = p.noaccess
    /\ \E root \in Cwds, gw \in GradlewArgs, guh \in GradleUserHomes, xdg \in XdgCacheHomes,
          dry \in BOOLEAN, agg \in BOOLEAN, konan \in BOOLEAN, verbose \in BOOLEAN :
          cfg = Config(root, gw, guh, xdg, dry, agg, konan, verbose)
    /\ \E e \in [on_path : OnPaths, startable : BOOLEAN, lsrev : BOOLEAN] :
          \* a program found on PATH can be executed; the wrapper file may
          \* lack the permission
          /\ ~e.startable => e.on_path = {}
          /\ env = e
    /\ pc = "start"
    /\ run = 1
    /\ out = <<>>
    /\ rmlog = <<>>
    /\ spawned = <<>>
    /\ proc = Idle
    /\ arg = <<>>
    /\ ret = <<>>

Next ==
    \/ Begin
    \/ Step1
    \/ ProcExit
    \/ Step2
    \/ Step3
    \/ Step4
    \/ Step5
    \/ Step6
    \/ Step7
    \/ Rerun

Spec == Init /\ [][Next]_vars

(***************************************************************************)
(* confirm_under_home on its own: small trees with symbolic links that     *)
(* leave home, enter it, point at it, dangle or loop; home is a directory, *)
(* a link to one, or the filesystem root (HOME=/).                         *)
(***************************************************************************)
GuardBase ==
    { <<Root, Dir>>, <<<<"h">>, Dir>>, <<<<"h", "x">>, Dir>>, <<<<"hx">>, Dir>>,
      <<<<"o">>, Dir>>, <<<<"o", "x">>, Dir>> }

GuardLinks ==
    { {},
      { <<<<"h", "l">>, Link(<<"o">>)>> },
      { <<<<"h", "l">>, Link(<<"h", "x">>)>> },
      { <<<<"h", "l">>, Link(<<"h">>)>> },
      { <<<<"h", "l">>, Link(<<"h", "m">>)>> },
      { <<<<"h", "l">>, Link(<<"h", "l">>)>> },
      { <<<<"h", "l">>, Link(<<"h", "m">>)>>, <<<<"h", "m">>, Link(<<"h", "l">>)>> },
      { <<<<"o", "l">>, Link(<<"h", "x">>)>> },
      { <<<<"l">>, Link(<<"h">>)>> },
      { <<<<"l">>, Link(<<"hx">>)>> } }

GuardNames == {"h", "hx", "x", "l", "o"}

\* length of the longest path handed to the guard
MaxDepth == 3

PathsUpTo(n) == UNION {[1..k -> GuardNames] : k \in 0..n}

GuardHomes == { Root, <<"h">>, <<"l">>, <<"o", "l">> }

InitGuard ==
    /\ \E links \in GuardLinks : fs = MkFS(GuardBase \cup links)
    /\ \E path \in PathsUpTo(MaxDepth), home \in GuardHomes :
          arg = [path |-> path, home |-> home]
    /\ ret = "pending"
    /\ pc = "guard"
    /\ fs0 = fs
    /\ stuck = {}
    /\ noaccess = {}
    /\ cfg = <<>>
    /\ env = <<>>
    /\ run = 1
    /\ out = <<>>
    /\ rmlog = <<>>
    /\ spawned = <<>>
    /\ proc = Idle

GuardCall ==
    /\ pc = "guard"
    /\ ret' = confirm_under_home(fs, noaccess, arg.path, arg.home)
    /\ pc' = "returned"
    /\ UNCHANGED <<fs, stuck, noaccess, cfg, env, run, fs0, out, rmlog, spawned, proc, arg>>

NextGuard == GuardCall

SpecGuard == InitGuard /\ [][NextGuard]_vars

(***************************************************************************)
(* find_project_dirs_to_remove on its own: project trees /w put together   *)
(* from alternatives for each place, with artifact directories at several  *)
(* depths, inside pruned directories, inside each other, behind symbolic   *)
(* links and inside a directory that cannot be listed.                     *)
(***************************************************************************)
ScanBase ==
    { <<Root, Dir>>, <<<<"w">>, Dir>>, <<<<"w", ".git">>, Dir>>,
      <<<<"w", ".git", "build">>, Dir>>, <<<<"t">>, Dir>>, <<<<"t", "build">>, Dir>> }

BuildAlts ==
    { {},
      { <<<<"w", "build">>, Dir>> },
      { <<<<"w", "build">>, Dir>>, <<<<"w", "build", "build">>, Dir>>,
        <<<<"w", "build", ".gradle">>, Dir>> },
      { <<<<"w", "build">>, File>> },
      { <<<<"w", "build">>, Link(<<"t">>)>> },
      { <<<<"w", "build">>, Link(<<"w", "m">>)>> } }

GradleAlts == { {}, { <<<<"w", ".gradle">>, Dir>> } }

AppAlts ==
    { {},
      { <<<<"w", "app">>, Dir>> },
      { <<<<"w", "app">>, Dir>>, <<<<"w", "app", "build">>, Dir>> },
      { <<<<"w", "app">>, Dir>>, <<<<"w", "app", "build">>, Dir>>,
        <<<<"w", "app", "build", ".gradle">>, Dir>> },
      { <<<<"w", "app">>, Dir>>, <<<<"w", "app", "src">>, Dir>>,
        <<<<"w", "app", "src", "build">>, Dir>>,
        <<<<"w", "app", "src", ".gradle">>, Link(<<"t">>)>> },
      { <<<<"w", "app">>, Link(<<"t">>)>> } }

ModulesAlts ==
    { {},
      { <<<<"w", "node_modules">>, Dir>>, <<<<"w", "node_modules", "build">>, Dir>> } }

InitScan ==
    /\ \E b \in BuildAlts, g \in GradleAlts, a \in AppAlts, n \in ModulesAlts :
          fs = MkFS(ScanBase \cup b \cup g \cup a \cup n)
    /\ noaccess \in { {}, { <<"w", "app">> } }
    /\ \E rev \in BOOLEAN : env = [on_path |-> {}, startable |-> TRUE, lsrev |-> rev]
    /\ arg = [root |-> <<"w">>]
    /\ ret = <<>>
    /\ pc = "scan"
    /\ fs0 = fs
    /\ stuck = {}
    /\ cfg = <<>>
    /\ run = 1
    /\ out = <<>>
    /\ rmlog = <<>>
    /\ spawned = <<>>
    /\ proc = Idle

ScanCall ==
    /\ pc = "scan"
    /\ ret' = find_project_dirs_to_remove(fs, noaccess, arg.root, env.lsrev)
    /\ pc' = "returned"
    /\ UNCHANGED <<fs, stuck, noaccess, cfg, env, run, fs0, out, rmlog, spawned, proc, arg>>

NextScan == ScanCall

SpecScan == InitScan /\ [][NextScan]_vars

(***************************************************************************)
(* main on small trees that differ in what ~/.konan is: absent, a          *)
(* directory, a directory holding a file that cannot be removed, a link to *)
(* a directory outside home, a link to a directory under home.             *)
(***************************************************************************)
KonanBase ==
    { <<Root, Dir>>, <<<<"home">>, Dir>>, <<<<"out">>, Dir>>,
      <<<<"home", ".gradle">>, Dir>>, <<<<"home", ".gradle", "daemon">>, Dir>>,
      <<<<"home", "proj">>, Dir>>, <<<<"home", "proj", "gradlew">>, File>>,
      <<<<"home", "proj", "build">>, Dir>>,
      <<<<"home", "t">>, Dir>>, <<<<"home", "t", "x">>, File>>,
      <<<<"out", "gh">>, Dir>>, <<<<"out", "gh", "daemon">>, Dir>>,
      <<<<"out", "data">>, Dir>>, <<<<"out", "data", "x">>, File>> }

KonanAlts ==
    { {},
      { <<<<"home", ".konan">>, Dir>>, <<<<"home", ".konan", "x">>, File>> },
      { <<<<"home", ".konan">>, Link(<<"out", "data">>)>> },
      { <<<<"home", ".konan">>, Link(<<"home", "t">>)>> } }

InitKonan ==
    /\ \E k \in KonanAlts : fs = MkFS(KonanBase \cup k)
    /\ fs0 = fs
    /\ stuck \in { {}, { <<"home", ".konan", "x">> } }
    /\ noaccess = {}
    /\ \E gw \in GradlewArgs, guh \in { <<"home", ".gradle">>, <<"out", "gh">> },
          dry \in BOOLEAN, konan \in BOOLEAN, verbose \in BOOLEAN :
          cfg = Config(<<"home", "proj">>, gw, guh, <<"home", ".cache">>,
                       dry, FALSE, konan, verbose)
    /\ \E on \in OnPaths : env = [on_path |-> on, startable |-> TRUE, lsrev |-> FALSE]
    /\ pc = "start"
    /\ run = 1
    /\ out = <<>>
    /\ rmlog = <<>>
    /\ spawned = <<>>
    /\ proc = Idle
    /\ arg = <<>>
    /\ ret = <<>>

SpecKonan == InitKonan /\ [][Next]_vars

(***************************************************************************)
(* safe_rm alone: one call on a path that is absent, a file, a directory   *)
(* with entries, or a symbolic link (to a directory, to a file, to         *)
(* nothing, to itself), with and without entries that cannot be removed.   *)
(***************************************************************************)
RmBase ==
    { <<Root, Dir>>, <<<<"home">>, Dir>>, <<<<"out">>, Dir>>,
      <<<<"out", "data">>, Dir>>, <<<<"out", "data", "x">>, File>>,
      <<<<"out", "data", "m">>, Dir>>, <<<<"out", "t">>, File>> }

RmAlts ==
    { {},
      { <<<<"home", "l">>, File>> },
      { <<<<"home", "l">>, Dir>>, <<<<"home", "l", "x">>, File>>,
        <<<<"home", "l", "m">>, Dir>>, <<<<"home", "l", "m", "x">>, File>>,
        <<<<"home", "l", "o">>, Link(<<"out", "data">>)>> },
      { <<<<"home", "l">>, Link(<<"out", "data">>)>> },
      { <<<<"home", "l">>, Link(<<"out", "t">>)>> },
      { <<<<"home", "l">>, Link(<<"home", "w">>)>> },
      { <<<<"home", "l">>, Link(<<"home", "l">>)>> } }

RmPaths == { <<"home", "l">>, <<"home", "l", "m">>, <<"home", "w">> }

RmStuck == { {}, { <<"home", "l">> }, { <<"home", "l", "x">> }, { <<"home", "l", "m", "x">> } }

InitRm ==
    /\ \E a \in RmAlts : fs = MkFS(RmBase \cup a)
    /\ fs0 = fs
    /\ stuck \in RmStuck
    /\ noaccess \in { {}, { <<"home", "l", "m">> } }
    /\ \E p \in RmPaths, dry \in BOOLEAN, verbose \in BOOLEAN :
          arg = [path |-> p, dry_run |-> dry, verbose |-> verbose]
    /\ cfg = [home |-> Home]
    /\ env = <<>>
    /\ pc = "call"
    /\ run = 1
    /\ out = <<>>
    /\ rmlog = <<>>
    /\ spawned = <<>>
    /\ proc = Idle
    /\ ret = <<>>

\* safe_rm(path, dry_run, verbose)
SafeRmCall ==
    /\ pc = "call"
    /\ Commit(safe_rm(Now, arg.path, arg.dry_run, arg.verbose, "call"), "returned")
    /\ UNCHANGED <<stuck, noaccess, cfg, env, run, fs0, spawned, proc, arg, ret>>

NextRm == SafeRmCall

SpecRm == InitRm /\ [][NextRm]_vars

(***************************************************************************)
(* Properties.                                                             *)
(***************************************************************************)
StrictlyBelow(d, q) == IsPrefix(d, q) /\ q # d

UserSteps == {"step4", "step5", "step6"}

Printed(msg) == \E i \in DOMAIN out : out[i].msg = msg

\* C1: every path the user-level tiers (steps 4, 5, 6) hand to safe_rm
\* passes confirm_under_home against home, and nothing those calls remove
\* lies outside the home directory.
C1_UserLevelStaysUnderHome ==
    \A i \in DOMAIN rmlog :
       rmlog[i].step \in UserSteps =>
          /\ rmlog[i].under
          /\ \A q \in rmlog[i].gone :
                StrictlyBelow(Resolve(fs0, noaccess, cfg.home).path, q)

\* C2: confirm_under_home(path, home) is false when path resolves to home
\* itself, true when it resolves to a strict descendant of home, false when
\* it resolves elsewhere (a sibling such as home + "x", an unrelated
\* directory), and false when the resolution of either fails.
C2_GuardContract ==
    pc = "returned" =>
       LET rp == Resolve(fs, noaccess, arg.path)
           rh == Resolve(fs, noaccess, arg.home)
       IN  /\ (~rp.ok \/ ~rh.ok) => ret = FALSE
           /\ (rp.ok /\ rh.ok /\ rp.path = rh.path) => ret = FALSE
           /\ (rp.ok /\ rh.ok /\ StrictlyBelow(rh.path, rp.path)) => ret = TRUE
           /\ (rp.ok /\ rh.ok /\ ~IsPrefix(rh.path, rp.path)) => ret = FALSE

\* C3: with dry_run set, whatever the other flags and the tree, main never
\* changes the filesystem and never starts an external command: run_cmd and
\* safe_rm only report.
C3_DryRunFrame ==
    cfg.dry_run => /\ fs = fs0
                   /\ fs = Tree
                   /\ spawned = <<>>
                   /\ proc = Idle

\* a dry run that reached the end after reporting a command and a removal
C3_Witness ==
    /\ cfg.dry_run
    /\ pc = "done"
    /\ Printed("DRY-RUN: would run:")
    /\ \E i \in DOMAIN rmlog : rmlog[i].outcome = "dry-run" /\ rmlog[i].step = "step4"

\* the tree as the calls of the given steps left it, rebuilt from the log
FsAfter(steps) ==
    LET gone == UNION {rmlog[i].gone : i \in {j \in DOMAIN rmlog : rmlog[j].step \in steps}}
    IN  [q \in DOMAIN fs0 \ gone |-> fs0[q]]

StepCalls(step) == SelectSeq(rmlog, LAMBDA e : e.step = step)

Rejected ==
    \E i \in DOMAIN out : out[i].msg = "SAFETY: GRADLE_USER_HOME is not under HOME"

AfterStep4 == pc \in {"step5", "step6", "step7", "done"}

\* some entry at or below p cannot be removed
Held(f, p) ==
    \E q \in Subtree(f, p) :
       q \in stuck \/ \E k \in Len(p)..(Len(q) - 1) : SubSeq(q, 1, k) \in noaccess

\* C4 as claimed: when the gradle user home does not resolve under home, a
\* finished run has removed nothing at or below where it resolves, in any
\* step, has printed the SAFETY warning naming it and home, and has removed
\* every directory the scanner found.
C4_NothingBelowRejectedHome ==
    (pc = "done" /\ ~confirm_under_home(fs0, noaccess, cfg.gradle_user_home, cfg.home)) =>
       LET g == Resolve(fs0, noaccess, cfg.gradle_user_home).path IN
       /\ \A i \in DOMAIN rmlog : \A q \in rmlog[i].gone : ~IsPrefix(g, q)
       /\ \E i \in DOMAIN out :
             out[i] = Line("SAFETY: GRADLE_USER_HOME is not under HOME",
                           cfg.gradle_user_home, cfg.home)
       /\ \A t \in {rmlog[i].path : i \in {j \in DOMAIN rmlog : rmlog[j].step = "step3"}} :
             ~Lexists(fs, noaccess, t)

\* C4 amended: when the step-4 guard rejects the gradle user home, the
\* SAFETY warning naming it and home is printed and steps 4 and 5 hand
\* nothing to safe_rm; step 3 has handed every directory the scanner found
\* to safe_rm, in order (compared when step 4 has just rejected; the log
\* only grows), which reported it (dry run) or removed it (unless something
\* in it cannot be removed).
C4_RejectedHomeSkipsUserPrune ==
    /\ (AfterStep4 /\ ~confirm_under_home(FsAfter({"step3"}), noaccess,
                                          cfg.gradle_user_home, cfg.home))
          => Rejected
    /\ Rejected =>
          /\ \A i \in DOMAIN out :
                out[i].msg = "SAFETY: GRADLE_USER_HOME is not under HOME"
                   => out[i].a = cfg.gradle_user_home /\ out[i].b = cfg.home
          /\ \A i \in DOMAIN rmlog : rmlog[i].step \notin {"step4", "step5"}
          /\ LET calls == StepCalls("step3") IN
             /\ pc = "step6" =>
                   [i \in DOMAIN calls |-> calls[i].path]
                      = find_project_dirs_to_remove(fs0, noaccess, cfg.root, env.lsrev)
             /\ \A i \in DOMAIN calls :
                   IF cfg.dry_run
                   THEN calls[i].outcome = "dry-run" /\ calls[i].gone = {}
                   ELSE /\ calls[i].outcome = "removed"
                        /\ Held(fs0, calls[i].path) \/ ~Lexists(fs, noaccess, calls[i].path)

\* a finished run whose gradle user home was rejected and whose step 3
\* removed project directories
C4_Witness ==
    /\ pc = "done"
    /\ Rejected
    /\ ~cfg.dry_run
    /\ \E i \in DOMAIN rmlog : rmlog[i].step = "step3" /\ rmlog[i].gone # {}

\* the dependency-module cache, a jars-* or transforms-* cache, or the
\* wrapper distribution directory of the gradle user home
AggressiveTarget(q) ==
    LET caches == Append(cfg.gradle_user_home, "caches") IN
    \/ q = Append(caches, "modules-2")
    \/ /\ Len(q) > 0 /\ Parent(q) = caches
       /\ StartsWith(Name(q), "jars-") \/ StartsWith(Name(q), "transforms-")
    \/ q = cfg.gradle_user_home \o <<"wrapper", "dists">>

\* the aggressive targets present in tree f
AggressiveTargets(f) ==
    {q \in {Append(Append(cfg.gradle_user_home, "caches"), NameOrder[i]) : i \in DOMAIN NameOrder}
              \cup {cfg.gradle_user_home \o <<"wrapper", "dists">>} :
        AggressiveTarget(q) /\ Lexists(f, noaccess, q)}

\* C5 as claimed: after a run without the aggressive flag every entry at or
\* below caches/modules-2, caches/jars-*, caches/transforms-* and
\* wrapper/dists of the gradle user home is as it was; after a real run with
\* the flag and a passing guard (nothing held back) these are gone.
C5_AggressiveOnly ==
    pc = "done" =>
       /\ ~cfg.aggressive =>
             \A t \in AggressiveTargets(fs0) : \A q \in Subtree(fs0, t) :
                q \in DOMAIN fs /\ fs[q] = fs0[q]
       /\ (cfg.aggressive /\ ~Rejected /\ ~cfg.dry_run /\ stuck = {} /\ noaccess = {}) =>
             AggressiveTargets(fs) = {}

\* C5 amended: without the aggressive flag step 5 does nothing and no
\* safe_rm call of steps 4 and 5 names one of these directories; what step 4
\* removes inside them is the entry named kotlin directly below.  With the
\* flag and a passing guard, step 5 hands each of them that exists when it
\* starts to safe_rm, which reports it (dry run) or removes it (unless
\* something in it cannot be removed).
C5_AggressiveGatesTargets ==
    /\ ~cfg.aggressive =>
          \A i \in DOMAIN rmlog :
             /\ rmlog[i].step # "step5"
             /\ rmlog[i].step = "step4" =>
                   /\ ~AggressiveTarget(rmlog[i].path)
                   /\ \A t \in AggressiveTargets(fs0) :
                         \A q \in rmlog[i].gone \cap Subtree(fs0, t) :
                            IsPrefix(Append(t, "kotlin"), q)
    /\ (cfg.aggressive /\ pc \in {"step6", "step7", "done"} /\ ~Rejected) =>
          LET calls == StepCalls("step5") IN
          /\ {calls[i].path : i \in DOMAIN calls}
                = AggressiveTargets(FsAfter({"step3", "step4"}))
          /\ \A i \in DOMAIN calls :
                IF cfg.dry_run
                THEN calls[i].outcome = "dry-run" /\ calls[i].gone = {}
                ELSE /\ calls[i].outcome = "removed"
                     /\ Held(fs0, calls[i].path) \/ ~Lexists(fs, noaccess, calls[i].path)

\* a finished aggressive run that removed the dependency-module cache in step 5
C5_Witness ==
    /\ pc = "done"
    /\ cfg.aggressive
    /\ \E i \in DOMAIN rmlog :
          /\ rmlog[i].step = "step5"
          /\ rmlog[i].path = cfg.gradle_user_home \o <<"caches", "modules-2">>
          /\ rmlog[i].outcome = "removed"
          /\ rmlog[i].path \notin DOMAIN fs
\* C6: in a second run with the same configuration on the tree the first
\* run left (no dry run, every removal permitted) the tree does not change
\* and every safe_rm call finds its target missing.
C6_SecondRunChangesNothing ==
    (run = 2 /\ ~cfg.dry_run /\ stuck = {} /\ noaccess = {}) =>
       /\ fs = fs0
       /\ \A i \in DOMAIN rmlog : rmlog[i].outcome = "missing" /\ rmlog[i].gone = {}

Range(s) == {s[i] : i \in DOMAIN s}

\* the directories strictly between root and p, root first excluded
Between(root, p) == {SubSeq(p, 1, k) : k \in (Len(root) + 1)..(Len(p) - 1)}

\* the names the claim lists
PrunedNames ==
    {".git", ".idea", ".vscode", ".venv", "venv", "node_modules", "build", ".gradle"}

ArtifactNames == {"build", ".gradle"}

ScanNames == {".git", ".gradle", "app", "build", "m", "node_modules", "src", "t", "w"}

ScanPaths == {arg.root \o s : s \in UNION {[1..n -> ScanNames] : n \in 1..MaxDepth}}

\* C7 as claimed: the result is exactly the directories named build or
\* .gradle below root whose chain of directories from root has no pruned
\* name, each once, none inside a pruned or another returned directory.
C7_ScannerExact ==
    pc = "returned" =>
       /\ Range(ret) = {p \in ScanPaths :
                           /\ Name(p) \in ArtifactNames
                           /\ IsDir(fs, noaccess, p)
                           /\ \A d \in Between(arg.root, p) : Name(d) \notin PrunedNames}
       /\ Cardinality(Range(ret)) = Len(ret)
       /\ \A i, j \in DOMAIN ret : i # j => ~IsPrefix(ret[i], ret[j])

\* C7 amended: the result is exactly the entries named build or .gradle that
\* are directories or symbolic links to directories and are reached from
\* root through directories that are not symbolic links, can be listed and
\* have no pruned name; each once, none inside a pruned or another returned
\* directory.
C7_ScannerExactNoFollow ==
    pc = "returned" =>
       /\ Range(ret) = {p \in DOMAIN fs :
                           /\ StrictlyBelow(arg.root, p)
                           /\ Name(p) \in ArtifactNames
                           /\ IsDir(fs, noaccess, p)
                           /\ \A d \in Between(arg.root, p) \cup {arg.root} :
                                 /\ fs[d].kind = "dir"
                                 /\ d \notin noaccess
                           /\ \A d \in Between(arg.root, p) : Name(d) \notin PrunedNames}
       /\ Cardinality(Range(ret)) = Len(ret)
       /\ \A i \in DOMAIN ret : \A d \in Between(arg.root, ret[i]) : Name(d) \notin PrunedNames
       /\ \A i, j \in DOMAIN ret : i # j => ~IsPrefix(ret[i], ret[j])

\* a scan that returned a symbolic link to a directory and another target,
\* and left alone a build directory inside .git and one behind a link
C7_Witness ==
    /\ pc = "returned"
    /\ Len(ret) >= 2
    /\ \E i \in DOMAIN ret : IsSymlink(fs, noaccess, ret[i])
    /\ <<"w", ".git", "build">> \in DOMAIN fs /\ <<"w", ".git", "build">> \notin Range(ret)
    /\ IsSymlink(fs, noaccess, <<"w", "app">>)
    /\ IsDir(fs, noaccess, <<"w", "app", "build">>)

\* C8: whatever the steps meet, no step ends main before the completion
\* marker (main does not stop on an uncaught exception), and a finished run
\* has printed the completion marker last.
C8_EveryRunCompletes ==
    /\ pc # "crashed"
    /\ pc = "done" => out[Len(out)].msg = ">> zap complete"

\* run_cmd was called with this command: it was started, or reported by a dry run
Ran(cmd) ==
    \/ cmd \in Range(spawned)
    \/ \E i \in DOMAIN out : out[i].msg = "DRY-RUN: would run:" /\ out[i].a = cmd

\* C9: step 2 picks its executable as step 1 does: once step 2 is over, if
\* step 1 ran the stop command through the wrapper or through the global
\* gradle, step 2 ran the cache-clean command through the same executable.
C9_SameExecutableRule ==
    pc \in {"step3", "step4", "step5", "step6", "step7", "done"} =>
       \A e \in {cfg.gradlew_str, "gradle"} :
          Ran(<<e, "--stop">>) => Ran(<<e, "-q", "cleanBuildCache">>)

StepNo(step) ==
    CASE step = "step3" -> 3 [] step = "step4" -> 4
      [] step = "step5" -> 5 [] step = "step6" -> 6

IsRemovalLine(l) == l.msg \in {"DRY-RUN: rm -rf", "removed:", "WARN: failed to remove"}

\* the safe_rm calls that print a line
Reported(e) ==
    \/ e.outcome \in {"dry-run", "warn"}
    \/ e.outcome = "removed" /\ cfg.verbose

\* the step a printed line belongs to; a removal line belongs to the step of
\* the safe_rm call that printed it
PhaseAt(i) ==
    LET l == out[i] IN
    IF IsRemovalLine(l)
    THEN StepNo(SelectSeq(rmlog, Reported)[Cardinality({j \in 1..i : IsRemovalLine(out[j])})].step)
    ELSE CASE l.msg = "== zap_gradle ==" -> 0
           [] l.msg \in {"DRY-RUN: would run:", "RUN:", "WARN: command failed:"} ->
                 IF l.a[Len(l.a)] = "--stop" THEN 1 ELSE 2
           [] l.msg = "WARN: gradle/gradlew not found" -> 1
           [] l.msg = ">> Removing project-local" -> 3
           [] l.msg \in {"SAFETY: GRADLE_USER_HOME is not under HOME",
                         ">> Pruning user-level Gradle caches (safe subset)"} -> 4
           [] l.msg = ">> AGGRESSIVE:" -> 5
           [] l.msg \in {">> Removing ~/.konan (Kotlin/Native)",
                         "SAFETY: refusing to remove ~/.konan outside HOME"} -> 6
           [] l.msg = ">> zap complete" -> 7

\* the last step main has begun
Begun ==
    CASE pc \in {"start", "step1"} -> 0
      [] pc \in {"wait1", "step2"} -> 1
      [] pc \in {"wait2", "step3"} -> 2
      [] pc = "step4" -> 3 [] pc = "step5" -> 4 [] pc = "step6" -> 5
      [] pc = "step7" -> 6 [] pc \in {"done", "crashed"} -> 7

Last(s) == s[Len(s)]

\* C10: what main prints, starts and removes comes in the order of the
\* steps: daemon stop, build-cache clean, project-local purge, safe prune,
\* aggressive purge, toolchain purge, completion marker; nothing of a step
\* happens before main has begun it, a child process runs only while main
\* waits for it, and the aggressive patterns are processed only with the
\* aggressive flag set and the step-4 guard passed, after the safe subset.
C10_FixedOrder ==
    /\ Len(SelectSeq(out, IsRemovalLine)) = Len(SelectSeq(rmlog, Reported))
    /\ \A i \in DOMAIN out :
          /\ PhaseAt(i) <= Begun
          /\ i > 1 => PhaseAt(i - 1) <= PhaseAt(i)
    /\ \A i \in DOMAIN rmlog :
          /\ StepNo(rmlog[i].step) <= Begun
          /\ i > 1 => StepNo(rmlog[i - 1].step) <= StepNo(rmlog[i].step)
    /\ Len(spawned) <= 2
    /\ \A i \in DOMAIN spawned :
          /\ Last(spawned[i]) \in {"--stop", "cleanBuildCache"}
          /\ Last(spawned[i]) = "--stop" => i = 1 /\ Begun >= 1
          /\ Last(spawned[i]) = "cleanBuildCache" => i = Len(spawned) /\ Begun >= 2
    /\ proc.state = "running" =>
          /\ pc \in {"wait1", "wait2"}
          /\ proc.cmd = Last(spawned)
          /\ rmlog = <<>>
    /\ (Printed(">> AGGRESSIVE:") \/ \E i \in DOMAIN rmlog : rmlog[i].step = "step5") =>
          /\ cfg.aggressive
          /\ ~Rejected
          /\ confirm_under_home(FsAfter({"step3"}), noaccess, cfg.gradle_user_home, cfg.home)
          /\ \E i, j \in DOMAIN out :
                /\ i < j
                /\ out[i].msg = ">> Pruning user-level Gradle caches (safe subset)"
                /\ out[j].msg = ">> AGGRESSIVE:"
                /\ \A k \in DOMAIN out : PhaseAt(k) = 4 => k < j
    /\ Printed(">> zap complete") => pc = "done" /\ Last(out).msg = ">> zap complete"

\* a finished run in which every step did something: both commands ran and
\* steps 3, 4, 5 and 6 each removed something
C10_Witness ==
    /\ pc = "done"
    /\ Len(spawned) = 2
    /\ \A s \in {"step3", "step4", "step5", "step6"} :
          \E i \in DOMAIN rmlog : rmlog[i].step = s /\ rmlog[i].gone # {}

Konan == Append(cfg.home, ".konan")

\* the tree when step 6 starts
FsBeforeStep6 == FsAfter({"step3", "step4", "step5"})

KonanGuardPasses == confirm_under_home(FsBeforeStep6, noaccess, Konan, cfg.home)

\* C11: once step 6 is over, safe_rm was called on ~/.konan exactly when the
\* include-kotlin-native flag is set and confirm_under_home(~/.konan, home)
\* passes, whether or not step 4 rejected the gradle user home; the call
\* removes it (in a real run, when nothing in it is held back).  When the
\* flag is set and the guard fails, step 6 deletes nothing and prints the
\* warning; without the flag step 6 prints and deletes nothing.
C11_KonanDecision ==
    pc \in {"step7", "done"} =>
       LET calls == StepCalls("step6") IN
       /\ IF cfg.include_konan /\ KonanGuardPasses
          THEN /\ Len(calls) = 1 /\ calls[1].path = Konan
               /\ Printed(">> Removing ~/.konan (Kotlin/Native)")
               /\ ~Printed("SAFETY: refusing to remove ~/.konan outside HOME")
               /\ (~cfg.dry_run /\ ~Held(FsBeforeStep6, Konan)) =>
                     ~Lexists(fs, noaccess, Konan)
          ELSE /\ calls = <<>>
               /\ fs = FsBeforeStep6
               /\ ~Printed(">> Removing ~/.konan (Kotlin/Native)")
               /\ Printed("SAFETY: refusing to remove ~/.konan outside HOME")
                     <=> cfg.include_konan

\* a finished real run in which step 4 rejected the gradle user home and
\* step 6 removed the directory ~/.konan
C11_Witness ==
    /\ pc = "done"
    /\ Rejected
    /\ ~cfg.dry_run
    /\ Konan \in DOMAIN fs0 /\ fs0[Konan].kind = "dir"
    /\ Konan \notin DOMAIN fs
    /\ \E i \in DOMAIN rmlog : rmlog[i].step = "step6" /\ Konan \in rmlog[i].gone

\* the path named an entry of this kind (the path itself, links not followed)
\* when safe_rm was called
WasA(kind) ==
    LET l == Lstat(fs0, noaccess, arg.path) IN l.st = "ok" /\ fs0[l.real].kind = kind

\* C12: a real call of safe_rm on a directory (not a link) returns without
\* an exception, leaves in the subtree only what cannot be removed and the
\* directories above it, and prints the WARN line, and no `removed:` line,
\* exactly when the directory itself is still there afterwards.
C12_DirectoryFailureReported ==
    (pc # "call" /\ WasA("dir") /\ ~arg.dry_run) =>
       /\ pc = "returned"
       /\ \A q \in Subtree(fs0, arg.path) \cap DOMAIN fs : Held(fs0, q)
       /\ Printed("WARN: failed to remove") <=> arg.path \in DOMAIN fs
       /\ Printed("removed:") => arg.path \notin DOMAIN fs

\* what the link at the path named when safe_rm was called
LinkTarget == Stat(fs0, noaccess, arg.path)

\* C13: safe_rm on a symbolic link to a file or to a directory takes away
\* nothing but the link entry: the target and everything else stays as it
\* was; a real call whose unlink is permitted removes the link (a dry run
\* reports it, a refused unlink prints the WARN line).  safe_rm on a path
\* that does not exist changes nothing, prints nothing and raises nothing.
C13_LinkAndMissingFrame ==
    pc # "call" =>
       /\ (WasA("link") /\ LinkTarget.st = "ok") =>
             /\ pc = "returned"
             /\ DOMAIN fs0 \ DOMAIN fs \subseteq {arg.path}
             /\ \A q \in DOMAIN fs : fs[q] = fs0[q]
             /\ LinkTarget.real \in DOMAIN fs
             /\ Subtree(fs, LinkTarget.real) = Subtree(fs0, LinkTarget.real)
             /\ arg.path \in DOMAIN fs <=> (arg.dry_run \/ arg.path \in stuck)
             /\ arg.dry_run => Printed("DRY-RUN: rm -rf")
             /\ (~arg.dry_run /\ arg.path \in stuck) => Printed("WARN: failed to remove")
       /\ Lstat(fs0, noaccess, arg.path).st = "ENOENT" =>
             /\ pc = "returned"
             /\ fs = fs0
             /\ out = <<>>
             /\ \A i \in DOMAIN rmlog : rmlog[i].outcome = "missing"

\* a real call on a link to a directory with entries: the link is gone, the
\* directory and its entries are there
C13_Witness ==
    /\ pc = "returned"
    /\ ~arg.dry_run
    /\ WasA("link")
    /\ LinkTarget.st = "ok" /\ fs0[LinkTarget.real].kind = "dir"
    /\ Children(fs0, LinkTarget.real) # {}
    /\ arg.path \notin DOMAIN fs
    /\ Subtree(fs, LinkTarget.real) = Subtree(fs0, LinkTarget.real)

====
